---- MODULE Spec2Model ----
(***************************************************************************)
(* A model of send() of three notification adapters of apprise:            *)
(*   NotifyMailgun (src/apprise/plugins/mailgun.py),                       *)
(*   NotifyReddit  (src/apprise/plugins/reddit.py),                        *)
(*   NotifySNS     (src/apprise/plugins/sns.py).                           *)
(*                                                                         *)
(* One behaviour follows one adapter instance (variable adapter, fixed by  *)
(* Init) through any number of send() calls.  A send() is split at its     *)
(* loop: one action starts it (validation, attachment opening, the lazy    *)
(* login), one action runs one iteration of its batch/target loop with     *)
(* every HTTP request that iteration issues, and one action returns.  The  *)
(* remote service and the file system are the inputs: each action draws    *)
(* the HTTP status, the body, a transport exception or an I/O error from   *)
(* small sets.  Spec starts from a constructed instance.                   *)
(*                                                                         *)
(* A second specification, CtorSpec, follows the construction itself:      *)
(* __init__ applied to raw arguments, url_identifier, the round trip       *)
(* url() -> parse_url() -> __init__, and the request signing of SNS.       *)
(***************************************************************************)
EXTENDS Integers, Sequences, FiniteSets, TLC

VARIABLES
    adapter,      \* "mailgun" | "reddit" | "sns": the instance under test
    cpc,          \* "new" (not constructed) | "built" | "error" (TypeError) |
                  \* "rebuilt" (constructed again from its own url())
    args,         \* the arguments handed to __init__
    inst,         \* the instance __init__ made: credentials, options, targets
    rebuilt,      \* the instance made from parse_url(inst.url())
    signed,       \* SNS: the calls of aws_prepare_request() made, with their headers
    pc,           \* "idle" (constructed) | "loop" (inside send) | "done"
    result,       \* "none" | "true" | "false" | "raised": what send() gave
    exitPath,     \* which return statement (or escape) ended the last send()
    requests,     \* the HTTP POSTs issued, in order: by the current send()
                  \* (Mailgun), by its current loop iteration or login (Reddit, SNS)
    replies,      \* Reddit, SNS: the replies to those POSTs received so far
    attempted,    \* number of loop iterations (batches/targets) started
    failures,     \* number of loop iterations whose call(s) failed
    \* ---- NotifyMailgun
    targets,      \* self.targets: validated To addresses, in order
    cc,           \* self.cc
    bcc,          \* self.bcc
    batch,        \* self.batch
    attach,       \* the attach argument of send(): one kind per attachment
    files,        \* the files dict of send(): state of each opened handle
    payload,      \* the payload dict of send() (its to/cc/bcc keys)
    index,        \* the loop variable of the batch loop (0-based offset)
    has_error,    \* the has_error flag of send() (Mailgun and Reddit)
    \* ---- NotifyReddit
    subreddits,           \* self.subreddits
    remaining,            \* the local copy `subreddits` that send() pops from
    access_token,         \* self.__access_token: "None", "False" or a token
    access_token_expiry,  \* self.__access_token_expiry (how it was last set)
    refresh_token,        \* self.__refresh_token
    ratelimit_remaining,  \* self.ratelimit_remaining
    ratelimit_reset,      \* self.ratelimit_reset
    call,                 \* the locals of the running _fetch(): url, payload, headers
    fetched,              \* (postokay, content) the last _fetch() gave send()
    login_failed,         \* a login() of the current send() returned False or raised
    clean,                \* history: whether every reply since construction was
                          \* 200 with a valid body, and while so the number of
                          \* send() calls begun, of login requests made and the
                          \* token they obtained
    \* ---- NotifySNS
    phone,        \* self.phone
    topics,       \* self.topics
    phone_left,   \* the local copy `phone` that send() pops from
    topics_left,  \* the local copy `topics` that send() pops from
    error_count   \* the error_count of send()

mgVars == <<targets, cc, bcc, batch, attach, files, payload, index>>

rdSession == <<access_token, access_token_expiry, refresh_token,
               ratelimit_remaining, ratelimit_reset>>

rdVars == <<subreddits, remaining, access_token, access_token_expiry,
            refresh_token, ratelimit_remaining, ratelimit_reset, call, fetched,
            login_failed, clean>>

snsVars == <<phone, topics, phone_left, topics_left, error_count>>

ctorVars == <<cpc, args, inst, rebuilt, signed>>

\* what send() works on
sendVars == <<pc, result, exitPath, requests, replies, attempted, failures,
              has_error, mgVars, rdVars, snsVars>>

vars == <<adapter, ctorVars, sendVars>>

----------------------------------------------------------------------------
(* Bounds of the model *)

\* longest explicitly enumerated To list
MaxTargets == 2
\* number of attachments handed to send()
MaxAttach == 2
\* addresses 1..NumAddr are used for the enumerated To, cc and bcc lists
NumAddr == 2
\* most subreddits of a Reddit instance
MaxSubs == 2
\* most phone numbers, and most topics, of an SNS instance
MaxPhones == 2
MaxTopics == 2
\* the clock and the X-RateLimit-Reset header take the values 0..MaxTime
MaxTime == 1
\* most POSTs followed within one _fetch() of Reddit
MaxNested == 4

Addr == 1..NumAddr

----------------------------------------------------------------------------
(* Helpers *)

\* all sequences over S of length 0..n
SeqsUpTo(S, n) == UNION { [1..k -> S] : k \in 0..n }

\* the set of elements of a sequence
Range(s) == { s[i] : i \in DOMAIN s }

Min(a, b) == IF a < b THEN a ELSE b

\* ceil(n / d) for n >= 0, d > 0
CeilDiv(n, d) == (n + d - 1) \div d

\* the elements of a finite set in some order
SeqOf(S) == CHOOSE q \in [1..Cardinality(S) -> S] : Range(q) = S

\* str.lower() on the spellings used here
Lower(str) ==
    CASE str = "EU" -> "eu"
      [] str = "US" -> "us"
      [] str = "LINK" -> "link"
      [] OTHER -> str

\* str.strip() on the spellings used here
Strip(str) == IF str = " LINK " THEN "LINK" ELSE str

\* parse_bool() of the values url() writes and of a missing parameter
parse_bool(v, default) ==
    CASE v = "yes" -> TRUE
      [] v = "no" -> FALSE
      [] OTHER -> default

\* a local list that is the instance's own list, not a copy of it: a pop
\* from it is a pop from the instance's list
PopLeavesSelf_Alias(own, local) == local

\* `subreddits = list(self.subreddits)`, `phone = list(self.phone)`,
\* `topics = list(self.topics)`: the local list is a copy, and the instance's
\* list after a pop from the local one is what it was
PopLeavesSelf(own, local) == own

\* parse_list(targets), parse_emails(targets): the entries of the argument,
\* each raw target once, in the order given
parse_list(raw) == raw

parse_emails(raw) == raw

\* raise TypeError(msg) in __init__: no instance exists
TypeError == [error |-> TRUE]

\* no instance yet
NoInstance == [error |-> TRUE]

\* no arguments
NoArgs == [none |-> TRUE]

----------------------------------------------------------------------------
(* Return from send(): the values every adapter's return path sets *)

\* send() ends with `res` through the return statement (or escape) `path`
Return(res, path) ==
    /\ pc' = "done"
    /\ result' = res
    /\ exitPath' = path


----------------------------------------------------------------------------
(* NotifyMailgun *)

\* The maximum amount of emails that can reside within a single batch
default_batch_size == 2000

\* batch_size = 1 if not self.batch else self.default_batch_size
batch_size == IF batch THEN default_batch_size ELSE 1

\* what an attachment of the attach argument can be: readable, failing its
\* boolean validity check, or raising OSError from open()
AttachKinds == {"ok", "invalid", "openfail"}

\* the attach arguments of send(): the loop over them ends at the first one
\* that is not readable, so only the last one is anything but readable
AttachLists ==
    { att \in SeqsUpTo(AttachKinds, MaxAttach) :
        \A i \in 1..(Len(att) - 1) : att[i] = "ok" }

\* entry[1].close() for every entry of files
CloseAll(fs) == [i \in DOMAIN fs |-> "closed"]

\* the handler of `except OSError` around open(): without the tidy-up loop
CloseOnOpenError_Skip(fs) == fs

\* the handler of `except OSError` around open(): tidy up any open files
CloseOnOpenError(fs) == CloseAll(fs)

\* the `if not attachment: return False` branch: no handle is touched
LeaveOnBadAttachment(fs) == fs

\* the attachment loop of send(): opens attachment idx, idx+1, ... on top of
\* the handles fs; exit says how the loop ended
RECURSIVE OpenAttachments(_, _, _)
OpenAttachments(att, idx, fs) ==
    IF idx > Len(att)
    THEN [files |-> fs, exit |-> "opened"]
    ELSE IF att[idx] = "invalid"
    THEN [files |-> LeaveOnBadAttachment(fs), exit |-> "bad_attachment"]
    ELSE IF att[idx] = "openfail"
    THEN [files |-> CloseOnOpenError(fs), exit |-> "open_error"]
    ELSE OpenAttachments(att, idx + 1, Append(fs, "open"))

\* the slice taken one address short: self.targets[index : index + batch_size - 1]
Chunk_Short(idx) == SubSeq(targets, idx + 1, Min(idx + batch_size - 1, Len(targets)))

\* self.targets[index : index + batch_size] (addresses only)
Chunk(idx) == SubSeq(targets, idx + 1, Min(idx + batch_size, Len(targets)))

\* range(0, len(emails), batch_size): the offset after idx
NextIndex(idx) == idx + batch_size

\* the loop over the chunk: cc = cc - {to_addr[1]}; bcc = bcc - {to_addr[1]}
StripTo(s, chunk) == s \ Range(chunk)

\* the payload of an iteration that takes cc as self.cc, bcc not removed
BatchPayload_CcKeepsBcc(old, idx) ==
    LET c == StripTo(cc, Chunk(idx))
        b == StripTo(bcc, Chunk(idx))
    IN  [to  |-> Chunk(idx),
         cc  |-> IF c # {} THEN c ELSE old.cc,
         bcc |-> IF b # {} THEN b ELSE old.bcc]

\* the payload dict after the assignments of one iteration; the keys "cc"
\* and "bcc" are assigned only under `if cc:` and `if bcc:` and the dict is
\* the one built before the loop, so an unassigned key keeps its value.
\* An absent key is the empty set.
BatchPayload(old, idx) ==
    LET c == StripTo(cc \ bcc, Chunk(idx))
        b == StripTo(bcc, Chunk(idx))
    IN  [to  |-> Chunk(idx),
         cc  |-> IF c # {} THEN c ELSE old.cc,
         bcc |-> IF b # {} THEN b ELSE old.bcc]

\* the payload before the loop: no "to", "cc" or "bcc" key yet
EmptyPayload == [to |-> <<>>, cc |-> {}, bcc |-> {}]

\* the POST of one batch: `self.throttle()` comes right before it; the
\* to, cc and bcc keys of the payload it carries
MgRequest(pl) == [to |-> pl.to, cc |-> pl.cc, bcc |-> pl.bcc, throttled |-> TRUE]

\* what requests.post() of one batch can do: status 200, another status,
\* raise requests.RequestException, raise OSError
MgOutcomes == {"ok", "status", "reqexc", "oserror"}

\* the branches of the try block that set has_error = True
MgMarksError(o) == o \in {"status", "reqexc", "oserror"}

\* self.app_id: the From name when none is given
app_id == "Apprise"

\* the address f"{self.user}@{self.host}"; addresses 1..NumAddr are others
SelfAddr == 0

\* MAILGUN_REGIONS
MAILGUN_REGIONS == {"us", "eu"}

\* display names; "False" is the absence of one
Names == {"False", "Ann"}

\* An entry of a raw To, cc or bcc list as is_email() classifies it: falsy
\* (malformed), or a name and a full_email
RawEmail(ok, name, addr) == [ok |-> ok, name |-> name, addr |-> addr]

BadEmail == RawEmail(FALSE, "False", SelfAddr)

RawEmails == {BadEmail} \cup { RawEmail(TRUE, n, a) : n \in Names, a \in Addr }

\* a path entry of a URL that is no address: its text
Segment(text) == RawEmail(FALSE, text, SelfAddr)

\* is_email(recipient): truthy for a well-formed entry
is_email(e) == e.ok

\* the recipients of a raw list that is_email() accepts, in their order
ValidEmails(l) == SelectSeq(parse_emails(l), is_email)

\* the from_addr argument: absent, a bare name, or an address with or
\* without a name
NoFrom == [kind |-> "none", name |-> "False", addr |-> SelfAddr]

FromArgs ==
    {NoFrom, [kind |-> "name", name |-> "Bob", addr |-> SelfAddr]}
    \cup { [kind |-> "email", name |-> n, addr |-> a] : n \in {"False", "Bob"},
                                                        a \in {SelfAddr, 1} }

\* self.from_addr after __init__: [self.app_id, user@host], replaced by the
\* (name or False, full_email) of a from_addr that is an address, or given the
\* name that from_addr is
MgFromAddr(a) ==
    IF a.from_addr.kind = "email"
    THEN [name |-> a.from_addr.name, addr |-> a.from_addr.addr]
    ELSE IF a.from_addr.kind = "name"
    THEN [name |-> a.from_addr.name, addr |-> SelfAddr]
    ELSE [name |-> app_id, addr |-> SelfAddr]

\* a To list left empty by the caller: the sender itself, with a name
DefaultTargets_Named(from) == <<[name |-> from.name, addr |-> from.addr]>>

\* `self.targets.append((False, self.from_addr[1]))`
DefaultTargets(from) == <<[name |-> "False", addr |-> from.addr]>>

\* validation of To that stops at the first malformed entry
MgValidTargets_StopAtBad(raw) ==
    LET bad == { k \in DOMAIN parse_emails(raw) : ~is_email(raw[k]) }
        upto == IF bad = {} THEN Len(raw)
                ELSE (CHOOSE k \in bad : \A j \in bad : k <= j) - 1
    IN  [k \in 1..upto |-> [name |-> raw[k].name, addr |-> raw[k].addr]]

\* the loop over parse_emails(targets): (name or False, full_email) of every
\* entry is_email() accepts, appended in order; the others are dropped
MgValidTargets(raw) ==
    LET v == ValidEmails(raw)
    IN  [k \in DOMAIN v |-> [name |-> v[k].name, addr |-> v[k].addr]]

\* self.names after the cc loop and then the bcc loop: the name of the last
\* valid entry with that address
MgNames(rawcc, rawbcc) ==
    LET l == ValidEmails(rawcc) \o ValidEmails(rawbcc)
        last(x) == CHOOSE k \in DOMAIN l :
                       /\ l[k].addr = x
                       /\ \A j \in DOMAIN l : l[j].addr = x => j <= k
    IN  [x \in { l[k].addr : k \in DOMAIN l } |-> l[last(x)].name]

\* NotifyMailgun.__init__: TypeError for a bad api key, user, region or From
\* address, else the instance
MgConstruct(a) ==
    LET region == IF a.region_name = "None" THEN "us" ELSE Lower(a.region_name)
        from == MgFromAddr(a)
    IN  IF \/ a.apikey = ""
           \/ a.user = ""
           \/ region \notin MAILGUN_REGIONS
           \/ (from.addr = SelfAddr /\ a.host = "")
        THEN TypeError
        ELSE [error       |-> FALSE,
              apikey      |-> a.apikey,
              user        |-> a.user,
              host        |-> a.host,
              region_name |-> region,
              from_addr   |-> from,
              targets     |-> IF a.targets # <<>>
                              THEN MgValidTargets(a.targets)
                              ELSE DefaultTargets(from),
              cc          |-> { e.addr : e \in Range(ValidEmails(a.cc)) },
              bcc         |-> { e.addr : e \in Range(ValidEmails(a.bcc)) },
              names       |-> MgNames(a.cc, a.bcc),
              headers     |-> a.headers,
              tokens      |-> a.tokens,
              batch       |-> a.batch]

\* url_identifier with the To list added to it
MgUrlIdentifier_WithTargets(i) ==
    <<"mailgun", i.host, i.apikey, i.region_name, i.targets>>

\* NotifyMailgun.url_identifier
MgUrlIdentifier(i) == <<"mailgun", i.host, i.apikey, i.region_name>>

\* url(privacy=False) as its parts.  The name parameter carries
\* self.from_addr[0] only; a cc entry is written without its name
\* (`"" if not e not in self.names`); has_targets compares an address with
\* the From pair and is always true, so the To list is always written.
MgUrl(i) ==
    [schema |-> "mailgun",
     user   |-> i.user,
     host   |-> i.host,
     path   |-> <<Segment(i.apikey)>>
                \o [k \in DOMAIN i.targets |->
                      RawEmail(TRUE, i.targets[k].name, i.targets[k].addr)],
     qsd    |-> [region  |-> i.region_name,
                 batch   |-> IF i.batch THEN "yes" ELSE "no",
                 name    |-> IF i.from_addr.name # "False"
                             THEN [kind |-> "name", name |-> i.from_addr.name,
                                   addr |-> SelfAddr]
                             ELSE NoFrom,
                 from    |-> NoFrom,
                 to      |-> <<>>,
                 cc      |-> { RawEmail(TRUE, "False", e) : e \in i.cc },
                 bcc     |-> { RawEmail(TRUE, "False", e) : e \in i.bcc },
                 headers |-> i.headers,
                 tokens  |-> i.tokens]]

\* NotifyMailgun.parse_url: the arguments of __init__ read from a URL.  The
\* first path entry is the api key; from= with name= is formataddr((name, from))
MgParseUrl(u) ==
    [apikey      |-> IF u.path = <<>> THEN "" ELSE u.path[1].name,
     user        |-> u.user,
     host        |-> u.host,
     targets     |-> (IF u.path = <<>> THEN <<>> ELSE Tail(u.path)) \o u.qsd.to,
     from_addr   |-> IF u.qsd.from.kind # "none"
                     THEN (IF u.qsd.name.kind # "none"
                           THEN [u.qsd.from EXCEPT !.name = u.qsd.name.name]
                           ELSE u.qsd.from)
                     ELSE u.qsd.name,
     region_name |-> IF u.qsd.region # "" THEN u.qsd.region ELSE "None",
     cc          |-> SeqOf(u.qsd.cc),
     bcc         |-> SeqOf(u.qsd.bcc),
     headers     |-> u.qsd.headers,
     tokens      |-> u.qsd.tokens,
     batch       |-> parse_bool(u.qsd.batch, FALSE)]

\* the arguments tried by CtorSpec
MgArgs ==
    [apikey      : {"key", ""},
     user        : {"user"},
     host        : {"example.com"},
     targets     : SeqsUpTo(RawEmails, MaxTargets),
     cc          : {<<>>, <<RawEmail(TRUE, "Ann", 1)>>, <<BadEmail, RawEmail(TRUE, "False", NumAddr)>>},
     bcc         : {<<>>, <<RawEmail(TRUE, "False", 1)>>},
     from_addr   : FromArgs,
     region_name : {"None", "EU", "xx"},
     headers     : {{}, {<<"X-Tag", "v">>}},
     tokens      : {{}},
     batch       : BOOLEAN]

\* send(), up to the batch loop
MgSendBegin ==
    /\ adapter = "mailgun"
    /\ pc \in {"idle", "done"}
    /\ \E att \in AttachLists :
         /\ attach' = att
         /\ requests' = <<>>
         /\ attempted' = 0
         /\ failures' = 0
         /\ has_error' = FALSE
         /\ index' = 0
         /\ payload' = EmptyPayload
         /\ IF targets = <<>>
            THEN /\ files' = <<>>
                 /\ Return("false", "no_targets")
            ELSE LET o == OpenAttachments(att, 1, <<>>)
                 IN  /\ files' = o.files
                     /\ IF o.exit = "opened"
                        THEN /\ pc' = "loop"
                             /\ result' = "none"
                             /\ exitPath' = "none"
                        ELSE Return("false", o.exit)
    /\ UNCHANGED <<ctorVars, adapter, targets, cc, bcc, batch, replies, rdVars, snsVars>>

\* one iteration of `for index in range(0, len(emails), batch_size)`
MgBatch ==
    /\ adapter = "mailgun"
    /\ pc = "loop"
    /\ index < Len(targets)
    /\ attempted' = attempted + 1
    /\ \E seekFails \in (IF files = <<>> THEN {FALSE} ELSE BOOLEAN) :
         IF seekFails
         THEN /\ files' = CloseAll(files)
              /\ failures' = failures + 1
              /\ Return("false", "seek_error")
              /\ UNCHANGED <<requests, payload, index, has_error>>
         ELSE \E o \in MgOutcomes :
              /\ payload' = BatchPayload(payload, index)
              /\ requests' = Append(requests, MgRequest(payload'))
              /\ has_error' = (has_error \/ MgMarksError(o))
              /\ failures' = failures + (IF o = "ok" THEN 0 ELSE 1)
              /\ index' = NextIndex(index)
              /\ UNCHANGED <<pc, result, exitPath, files>>
    /\ UNCHANGED <<ctorVars, adapter, targets, cc, bcc, batch, attach, replies, rdVars, snsVars>>

\* after the loop: close the attachments, return not has_error
MgSendEnd ==
    /\ adapter = "mailgun"
    /\ pc = "loop"
    /\ index >= Len(targets)
    /\ files' = CloseAll(files)
    /\ Return(IF has_error THEN "false" ELSE "true", "end")
    /\ UNCHANGED <<ctorVars, adapter, requests, replies, attempted, failures, targets, cc,
                   bcc, batch, attach, payload, index, has_error, rdVars, snsVars>>

\* raw To lists longer than one batch of batch mode: 1, 2, ..., n
LongTargets ==
    { [i \in 1..n |-> RawEmail(TRUE, "False", i)] :
        n \in {default_batch_size, default_batch_size + 1} }

\* the arguments of the instances Spec sends with: any raw To list (malformed
\* entries included), any cc and bcc, either batch mode; the lists longer
\* than a batch in batch mode, without cc and bcc
MgSendArgs ==
    { a \in [apikey      : {"key"},
             user        : {"user"},
             host        : {"example.com"},
             targets     : SeqsUpTo({BadEmail} \cup { RawEmail(TRUE, "False", x) : x \in Addr },
                                    MaxTargets) \cup LongTargets,
             cc          : { SeqOf({ RawEmail(TRUE, "False", x) : x \in S }) : S \in SUBSET Addr },
             bcc         : { SeqOf({ RawEmail(TRUE, "False", x) : x \in S }) : S \in SUBSET Addr },
             from_addr   : {NoFrom},
             region_name : {"None"},
             headers     : {{}},
             tokens      : {{}},
             batch       : BOOLEAN] :
        a.targets \in LongTargets => (a.batch /\ a.cc = <<>> /\ a.bcc = <<>>) }

\* the instance after __init__: self.targets (addresses), self.cc, self.bcc
\* and self.batch are the variables send() reads
MgInit ==
    /\ adapter = "mailgun"
    /\ \E a \in MgSendArgs :
         /\ inst = MgConstruct(a)
         /\ targets = [k \in DOMAIN inst.targets |-> inst.targets[k].addr]
         /\ cc = inst.cc
         /\ bcc = inst.bcc
         /\ batch = inst.batch
    /\ attach = <<>>
    /\ files = <<>>
    /\ payload = EmptyPayload
    /\ index = 0

----------------------------------------------------------------------------
(* NotifyReddit *)

\* clock_skew = timedelta(seconds=10)
clock_skew == 10

Times == 0..MaxTime

\* access tokens the auth endpoint can hand out
Tokens == {"t1", "t2"}

\* Python truth of self.__access_token: None and False are falsy
Truthy(t) == t \notin {"None", "False"}

\* an optional value: <<>> (None, absent) or <<x>>
Opt(S) == {<<>>} \cup { <<x>> : x \in S }

Abs(x) == IF x < 0 THEN 0 - x ELSE x

\* the wait computed at the head of _fetch(): None unless the quota is used
\* up and the reset lies ahead
Wait(now) ==
    IF ratelimit_remaining <= 0 /\ now < ratelimit_reset
    THEN <<Abs((ratelimit_reset - now) + clock_skew)>>
    ELSE <<>>

\* url = self.submit_url if self.__access_token else self.auth_url
FetchUrl(tok) == IF Truthy(tok) THEN "submit_url" ELSE "auth_url"

\* the payload of login() and the payload send() builds for subreddit sr
LoginPayload == [kind |-> "login", sr |-> 0]

SubmitPayload(sr) == [kind |-> "submit", sr |-> sr]

\* the first requests.post() of _fetch() entered with token tok at time now:
\* the Authorization header when the token is truthy, auth=(client_id,
\* client_secret) otherwise, after self.throttle(wait=wait)
FetchPost(tok, pl, now) ==
    [url       |-> FetchUrl(tok),
     payload   |-> pl,
     bearer    |-> IF Truthy(tok) THEN tok ELSE "None",
     basic     |-> ~Truthy(tok),
     throttled |-> TRUE,
     wait      |-> Wait(now),
     now       |-> <<now>>]

\* a retry that posts the payload of the login it has just made
RetryPost_LoginPayload(c, now) ==
    [url       |-> c.url,
     payload   |-> LoginPayload,
     bearer    |-> c.bearer,
     basic     |-> FALSE,
     throttled |-> FALSE,
     wait      |-> <<>>,
     now       |-> <<now>>]

\* the second requests.post() of _fetch() ("Try again"): the url, payload and
\* headers of the first one, no auth argument, no throttle() before it and
\* so no wait; now is the clock when it is made
RetryPost(c, now) ==
    [url       |-> c.url,
     payload   |-> c.payload,
     bearer    |-> c.bearer,
     basic     |-> FALSE,
     throttled |-> FALSE,
     wait      |-> <<>>,
     now       |-> <<now>>]

\* the clock readings a POST can be made at once the POSTs rqs of the same
\* _fetch() were made: the clock does not run backwards
Later(rqs) == { t \in Times : t >= rqs[Len(rqs)].now[1] }

\* the locals a running _fetch() keeps between its two POSTs
CallOf(rq) == [url |-> rq.url, payload |-> rq.payload, bearer |-> rq.bearer]

NoCall == [url |-> "none", payload |-> LoginPayload, bearer |-> "None"]

\* what the history keeps of a reply: all but its refresh token
Seen(resp) ==
    [exc |-> resp.exc, status |-> resp.status, body |-> resp.body, hdr |-> resp.hdr,
     access_token |-> resp.access_token, expires_in |-> resp.expires_in]

\* no _fetch() has returned to send() yet
NoFetch == [ok |-> FALSE, content |-> "none"]

\* the test without its token and url conditions: any non-200 reply
NeedsRelogin_AnyPost(resp, c) ==
    /\ ~resp.exc
    /\ resp.status # 200

\* `r.status_code != ok and self.__access_token and url != self.auth_url`
NeedsRelogin(resp, c) ==
    /\ ~resp.exc
    /\ resp.status # 200
    /\ Truthy(access_token)
    /\ c.url # "auth_url"

\* A reply.  exc: requests.post() raised RequestException.  body: what
\* loads(r.content) gives: "unparseable" (raises), "empty" (a falsy value such
\* as {}), "object" (a non-empty dict without errors), "errors" (a dict with
\* json.errors), "non_object" (a truthy value whose .get("json", {})
\* .get("errors", []) raises AttributeError: a list, or a dict whose "json" is
\* one).  hdr: the X-RateLimit-Remaining / X-RateLimit-Reset headers, <<>> when
\* absent or malformed.  The last three fields are those of a login reply.
Reply(status, body) ==
    [exc |-> FALSE, status |-> status, body |-> body,
     hdr |-> [rem |-> <<>>, reset |-> <<>>],
     access_token |-> "None", expires_in |-> "absent", refresh_token |-> "None"]

ExcReply == [Reply(0, "unparseable") EXCEPT !.exc = TRUE]

\* the reset header, when present, names the earliest or the latest time
RlHeaders == [rem : Opt(0..1), reset : Opt({0, MaxTime})]

SubmitReplies ==
    {ExcReply}
    \cup { Reply(st, b) : st \in {401, 500}, b \in {"unparseable", "non_object", "object"} }
    \cup { Reply(200, b) : b \in {"unparseable", "non_object", "errors"} }
    \cup { [Reply(200, b) EXCEPT !.hdr = h] : b \in {"empty", "object"}, h \in RlHeaders }

LoginReplies ==
    SubmitReplies
    \cup { [Reply(200, "object") EXCEPT !.hdr = h, !.access_token = t,
                                        !.expires_in = e, !.refresh_token = r] :
             h \in {[rem |-> <<>>, reset |-> <<>>], [rem |-> <<0>>, reset |-> <<MaxTime>>]},
             t \in Tokens \cup {"None"},
             e \in {"absent", "int", "bad"},
             r \in {"None", "r1"} }

\* an unparseable body taken as an empty success: (True, {})
Unparseable_AsSuccess(rem, reset) ==
    [ok |-> TRUE, raised |-> FALSE, content |-> "empty", rem |-> rem, reset |-> reset]

\* what _fetch() gives for an unparseable body: (False, {})
Unparseable(rem, reset) ==
    [ok |-> FALSE, raised |-> FALSE, content |-> "empty", rem |-> rem, reset |-> reset]

\* _fetch() from `content = loads(r.content)` to its return, and its
\* `except requests.RequestException`: (postokay, content), whether an
\* exception leaves _fetch(), and the rate-limit fields afterwards.
\* float(remaining) is assigned before int(reset) is evaluated.
ParseReply(resp) ==
    LET same(ok, raised, content) ==
            [ok |-> ok, raised |-> raised, content |-> content,
             rem |-> ratelimit_remaining, reset |-> ratelimit_reset]
    IN  IF resp.exc THEN same(FALSE, FALSE, "empty")
        ELSE IF resp.body = "unparseable"
        THEN Unparseable(ratelimit_remaining, ratelimit_reset)
        ELSE IF resp.status # 200 THEN same(FALSE, FALSE, resp.body)
        ELSE IF resp.body = "non_object" THEN same(FALSE, TRUE, resp.body)
        ELSE IF resp.body = "errors" THEN same(FALSE, FALSE, resp.body)
        ELSE [ok |-> TRUE, raised |-> FALSE, content |-> resp.body,
              rem |-> IF resp.hdr.rem # <<>>
                      THEN resp.hdr.rem[1] ELSE ratelimit_remaining,
              reset |-> IF resp.hdr.rem # <<>> /\ resp.hdr.reset # <<>>
                        THEN resp.hdr.reset[1] ELSE ratelimit_reset]

\* login() after its _fetch() returned: the token, expiry and refresh token
\* it leaves, its return value, and whether an exception leaves it
\* (int(response["expires_in"]) on a value that is no integer)
LoginResult(resp) ==
    LET f == ParseReply(resp)
        out(ok, raised, tok, exp, ref) ==
            [ok |-> ok, raised |-> raised, tok |-> tok, exp |-> exp, ref |-> ref,
             rem |-> f.rem, reset |-> f.reset]
    IN  IF f.raised
        THEN out(FALSE, TRUE, access_token, access_token_expiry, refresh_token)
        ELSE IF ~f.ok \/ f.content = "empty"
        THEN out(FALSE, FALSE, "False", access_token_expiry, refresh_token)
        ELSE IF resp.expires_in = "bad"
        THEN out(FALSE, TRUE, resp.access_token, access_token_expiry, refresh_token)
        ELSE out(Truthy(resp.access_token), FALSE, resp.access_token,
                 IF resp.expires_in = "int" THEN "expires_in" ELSE "default_lifetime",
                 IF resp.refresh_token # "None" THEN resp.refresh_token ELSE refresh_token)

\* a login reply that makes login() return True
LoginSucceeds(r) ==
    /\ ~r.exc
    /\ r.status = 200
    /\ r.body = "object"
    /\ r.access_token \in Tokens
    /\ r.expires_in # "bad"

\* a reply to a submission that makes _fetch() return (True, content)
SubmitSucceeds(r) ==
    /\ ~r.exc
    /\ r.status = 200
    /\ r.body \in {"empty", "object"}

\* the history of an instance no reply has reached yet, and the history once
\* a reply was not 200 with a valid body
NoHistory == [ok |-> TRUE, sends |-> 0, logins |-> 0, token |-> "None"]

Dirty == [ok |-> FALSE, sends |-> 0, logins |-> 0, token |-> "None"]

\* the history after one more send() has begun (counted up to two)
Started(h) == IF h.ok THEN [h EXCEPT !.sends = Min(h.sends + 1, 2)] ELSE h

\* the history after one more login request (counted up to two)
Logged(h) == IF h.ok THEN [h EXCEPT !.logins = Min(h.logins + 1, 2)] ELSE h

\* the history after the reply resp, to a login or to a submission
Heard(h, resp, login) ==
    IF ~h.ok THEN h
    ELSE IF login
    THEN (IF LoginSucceeds(resp) THEN [h EXCEPT !.token = resp.access_token] ELSE Dirty)
    ELSE (IF SubmitSucceeds(resp) THEN h ELSE Dirty)

\* login() that leaves the instance without the token it was given
SetSession_DropToken(L) ==
    /\ access_token' = "False"
    /\ access_token_expiry' = L.exp
    /\ refresh_token' = L.ref
    /\ ratelimit_remaining' = L.rem
    /\ ratelimit_reset' = L.reset

\* the assignments a finished login() has made
SetSession(L) ==
    /\ access_token' = L.tok
    /\ access_token_expiry' = L.exp
    /\ refresh_token' = L.ref
    /\ ratelimit_remaining' = L.rem
    /\ ratelimit_reset' = L.reset

\* send() after the login test: `if not len(self.subreddits): return False`,
\* else the copy of the subreddit list the loop pops from
RdEnterLoop ==
    IF subreddits = <<>>
    THEN /\ Return("false", "no_targets")
         /\ UNCHANGED remaining
    ELSE /\ pc' = "loop"
         /\ result' = "none"
         /\ exitPath' = "none"
         /\ remaining' = subreddits

\* the values self.__access_token_expiry takes: set by __init__, from the
\* expires_in of a login reply, or from access_token_lifetime_sec
Expiries == {"init", "expires_in", "default_lifetime"}

\* a test that also logs in when the stored expiry came from a reply's
\* expires_in, taking such a token as lapsed
NeedsLogin_WhenExpired(tok, expiry) == ~Truthy(tok) \/ expiry = "expires_in"

\* `if not self.__access_token and not self.login()` at the head of send():
\* login() is called for a falsy token; the stored expiry is not looked at
NeedsLogin(tok, expiry) == ~Truthy(tok)

\* send() up to its first POST: login() when the token is falsy
RdSendBegin ==
    /\ adapter = "reddit"
    /\ pc \in {"idle", "done"}
    /\ has_error' = FALSE
    /\ attempted' = 0
    /\ failures' = 0
    /\ replies' = <<>>
    /\ fetched' = NoFetch
    /\ login_failed' = FALSE
    /\ clean' = IF NeedsLogin(access_token, access_token_expiry)
                THEN Logged(Started(clean)) ELSE Started(clean)
    /\ IF NeedsLogin(access_token, access_token_expiry)
       THEN \E now \in Times :
              /\ access_token' = "False"
              /\ requests' = <<FetchPost("False", LoginPayload, now)>>
              /\ call' = CallOf(requests'[1])
              /\ pc' = "login"
              /\ result' = "none"
              /\ exitPath' = "none"
              /\ UNCHANGED remaining
       ELSE /\ requests' = <<>>
            /\ RdEnterLoop
            /\ UNCHANGED <<access_token, call>>
    /\ UNCHANGED <<ctorVars, adapter, mgVars, snsVars, subreddits, access_token_expiry,
                   refresh_token, ratelimit_remaining, ratelimit_reset>>

\* the locals of the _fetch() that login() runs
LoginCall == [url |-> "auth_url", payload |-> LoginPayload, bearer |-> "None"]

\* a login POST whose reply starts login() again from inside its _fetch()
RdNestedLogin(resp) ==
    /\ \E now \in Later(requests) :
         requests' = Append(requests, FetchPost("False", LoginPayload, now))
    /\ replies' = Append(replies, Seen(resp))
    /\ clean' = Logged(Heard(clean, resp, TRUE))
    /\ UNCHANGED <<pc, result, exitPath, remaining, rdSession, call, login_failed,
                   has_error, failures, fetched>>

\* the reply to the login POST of send(): the rest of login(), then send()
RdLoginReply ==
    /\ adapter = "reddit"
    /\ pc = "login"
    /\ \E resp \in LoginReplies :
         IF NeedsRelogin(resp, LoginCall) /\ Len(requests) < MaxNested
         THEN RdNestedLogin(resp)
         ELSE LET L == LoginResult(resp)
              IN  /\ SetSession(L)
                  /\ replies' = Append(replies, Seen(resp))
                  /\ login_failed' = (L.raised \/ ~L.ok)
                  /\ clean' = Heard(clean, resp, TRUE)
                  /\ call' = NoCall
                  /\ IF L.raised
                     THEN Return("raised", "exception") /\ UNCHANGED remaining
                     ELSE IF ~L.ok
                     THEN Return("false", "login_failed") /\ UNCHANGED remaining
                     ELSE RdEnterLoop
                  /\ UNCHANGED <<requests, has_error, failures, fetched>>
    /\ UNCHANGED <<ctorVars, adapter, mgVars, snsVars, subreddits, attempted>>

\* one iteration of `while len(subreddits) > 0` up to the POST of _fetch()
RdSubmitPost ==
    /\ adapter = "reddit"
    /\ pc = "loop"
    /\ remaining # <<>>
    /\ remaining' = SubSeq(remaining, 1, Len(remaining) - 1)
    /\ subreddits' = PopLeavesSelf(subreddits, remaining')
    /\ attempted' = attempted + 1
    /\ \E now \in Times :
         /\ requests' = <<FetchPost(access_token,
                                    SubmitPayload(remaining[Len(remaining)]), now)>>
         /\ call' = CallOf(requests'[1])
    /\ replies' = <<>>
    /\ fetched' = NoFetch
    /\ pc' = "submit"
    /\ UNCHANGED <<ctorVars, adapter, mgVars, snsVars, rdSession, result, exitPath,
                   failures, has_error, login_failed, clean>>

\* _fetch() returned (postokay, content) to send(), or raised
RdFinishCall(f) ==
    /\ ratelimit_remaining' = f.rem
    /\ ratelimit_reset' = f.reset
    /\ call' = NoCall
    /\ IF f.raised
       THEN /\ Return("raised", "exception")
            /\ UNCHANGED <<has_error, failures, fetched>>
       ELSE /\ pc' = "loop"
            /\ fetched' = [ok |-> f.ok, content |-> f.content]
            /\ has_error' = (has_error \/ ~f.ok)
            /\ failures' = failures + (IF f.ok THEN 0 ELSE 1)
            /\ UNCHANGED <<result, exitPath>>

\* the reply to the first POST of a submission
RdSubmitReply ==
    /\ adapter = "reddit"
    /\ pc = "submit"
    /\ \E resp \in SubmitReplies :
         IF NeedsRelogin(resp, call)
         THEN \E now \in Later(requests) :
                /\ access_token' = "False"
                /\ requests' = Append(requests, FetchPost("False", LoginPayload, now))
                /\ pc' = "relogin"
                /\ replies' = Append(replies, Seen(resp))
                /\ clean' = Logged(Heard(clean, resp, FALSE))
                /\ UNCHANGED <<result, exitPath, has_error, failures, call,
                               fetched, ratelimit_remaining, ratelimit_reset>>
         ELSE /\ RdFinishCall(ParseReply(resp))
              /\ replies' = Append(replies, Seen(resp))
              /\ clean' = Heard(clean, resp, FALSE)
              /\ UNCHANGED <<access_token, requests>>
    /\ UNCHANGED <<ctorVars, adapter, mgVars, snsVars, subreddits, remaining, attempted,
                   access_token_expiry, refresh_token, login_failed>>

\* the reply to the login POST made from inside _fetch()
RdReloginReply ==
    /\ adapter = "reddit"
    /\ pc = "relogin"
    /\ \E resp \in LoginReplies :
         IF NeedsRelogin(resp, LoginCall) /\ Len(requests) < MaxNested
         THEN RdNestedLogin(resp)
         ELSE LET L == LoginResult(resp)
              IN  /\ SetSession(L)
                  /\ replies' = Append(replies, Seen(resp))
                  /\ login_failed' = (login_failed \/ L.raised \/ ~L.ok)
                  /\ clean' = Heard(clean, resp, TRUE)
                  /\ UNCHANGED remaining
                  /\ IF L.raised
                     THEN /\ Return("raised", "exception")
                          /\ call' = NoCall
                          /\ UNCHANGED <<requests, has_error, failures, fetched>>
                     ELSE IF ~L.ok
                     THEN /\ pc' = "loop"
                          /\ fetched' = [ok |-> FALSE, content |-> "empty"]
                          /\ has_error' = TRUE
                          /\ failures' = failures + 1
                          /\ call' = NoCall
                          /\ UNCHANGED <<requests, result, exitPath>>
                     ELSE /\ \E now \in Later(requests) :
                               requests' = Append(requests, RetryPost(call, now))
                          /\ pc' = "retry"
                          /\ UNCHANGED <<call, result, exitPath, has_error, failures,
                                         fetched>>
    /\ UNCHANGED <<ctorVars, adapter, mgVars, snsVars, subreddits, attempted>>

\* the reply to the retried POST
RdRetryReply ==
    /\ adapter = "reddit"
    /\ pc = "retry"
    /\ \E resp \in SubmitReplies :
         /\ RdFinishCall(ParseReply(resp))
         /\ replies' = Append(replies, Seen(resp))
         /\ clean' = Heard(clean, resp, FALSE)
    /\ UNCHANGED <<ctorVars, adapter, mgVars, snsVars, subreddits, remaining, attempted, requests,
                   access_token, access_token_expiry, refresh_token, login_failed>>

\* the loop is over: return not has_error
RdSendEnd ==
    /\ adapter = "reddit"
    /\ pc = "loop"
    /\ remaining = <<>>
    /\ Return(IF has_error THEN "false" ELSE "true", "end")
    /\ UNCHANGED <<ctorVars, adapter, mgVars, snsVars, rdVars, requests, replies, attempted,
                   failures, has_error>>

\* REDDIT_MESSAGE_KINDS
REDDIT_MESSAGE_KINDS == {"auto", "self", "link"}

\* An entry of parse_list(targets): a subreddit name with or without leading
\* "#"; name 0 is the empty name ("#" alone)
RawSub(hash, name) == [hash |-> hash, name |-> name]

RawSubs == { RawSub(h, n) : h \in BOOLEAN, n \in 0..MaxSubs }

\* a path entry of a URL: its text
RdSegment(text) == [text |-> text]

\* [sr.lstrip("#") for sr in parse_list(targets) if sr.lstrip("#")]
RdSubreddits(raw) ==
    LET v == SelectSeq(parse_list(raw), LAMBDA e : e.name # 0)
    IN  [k \in DOMAIN v |-> v[k].name]

\* NotifyReddit.__init__: TypeError for a bad kind, user, password, app id
\* or app secret, else the instance (an empty subreddit list is accepted)
RdConstruct(a) ==
    LET kind == IF a.kind = "None" THEN "auto" ELSE Lower(Strip(a.kind))
    IN  IF \/ kind \notin REDDIT_MESSAGE_KINDS
           \/ a.user = ""
           \/ a.password = ""
           \/ a.app_id \in {"", "bad id"}
           \/ a.app_secret \in {"", "bad secret"}
        THEN TypeError
        ELSE [error         |-> FALSE,
              user          |-> a.user,
              password      |-> a.password,
              client_id     |-> a.app_id,
              client_secret |-> a.app_secret,
              subreddits    |-> RdSubreddits(a.targets),
              kind          |-> kind,
              nsfw          |-> a.nsfw,
              sendreplies   |-> a.sendreplies,
              resubmit      |-> a.resubmit,
              spoiler       |-> a.spoiler,
              advertisement |-> a.advertisement,
              flair_id      |-> a.flair_id,
              flair_text    |-> a.flair_text]

\* NotifyReddit.url_identifier
RdUrlIdentifier(i) == <<"reddit", i.client_id, i.client_secret, i.user, i.password>>

\* "yes" if flag else "no"
YesNo(flag) == IF flag THEN "yes" ELSE "no"

\* url(privacy=False) as its parts; a flair is written when it is set
RdUrl(i) ==
    [schema   |-> "reddit",
     user     |-> i.user,
     password |-> i.password,
     host     |-> i.client_id,
     path     |-> <<RdSegment(i.client_secret)>>
                  \o [k \in DOMAIN i.subreddits |-> RdSegment(i.subreddits[k])],
     qsd      |-> [kind       |-> i.kind,
                   ad         |-> YesNo(i.advertisement),
                   nsfw       |-> YesNo(i.nsfw),
                   resubmit   |-> YesNo(i.resubmit),
                   replies    |-> YesNo(i.sendreplies),
                   spoiler    |-> YesNo(i.spoiler),
                   flair_id   |-> i.flair_id,
                   flair_text |-> i.flair_text]]

\* NotifyReddit.parse_url: the results dictionary.  The host is the app id,
\* the first path entry the app secret; the flags are stored under the keys
\* "ad", "nsfw", "replies", "resubmit" and "spoiler".
RdParseUrl(u) ==
    [user       |-> u.user,
     password   |-> u.password,
     app_id     |-> u.host,
     app_secret |-> IF u.path = <<>> THEN "" ELSE u.path[1].text,
     targets    |-> IF u.path = <<>> THEN <<>>
                    ELSE [k \in 1..(Len(u.path) - 1) |-> RawSub(FALSE, u.path[k + 1].text)],
     kind       |-> IF u.qsd.kind # "" THEN Lower(Strip(u.qsd.kind)) ELSE "auto",
     ad         |-> parse_bool(u.qsd.ad, FALSE),
     nsfw       |-> parse_bool(u.qsd.nsfw, FALSE),
     replies    |-> parse_bool(u.qsd.replies, TRUE),
     resubmit   |-> parse_bool(u.qsd.resubmit, FALSE),
     spoiler    |-> parse_bool(u.qsd.spoiler, FALSE),
     flair_id   |-> u.qsd.flair_id,
     flair_text |-> u.qsd.flair_text]

\* __init__(**results): a key of results binds the parameter of its name.
\* No parameter is named "ad" or "replies" (they go to **kwargs), so
\* advertisement and sendreplies take their defaults False and True.
RdKwargs(r) ==
    [user          |-> r.user,
     password      |-> r.password,
     app_id        |-> r.app_id,
     app_secret    |-> r.app_secret,
     targets       |-> r.targets,
     kind          |-> r.kind,
     nsfw          |-> r.nsfw,
     sendreplies   |-> TRUE,
     resubmit      |-> r.resubmit,
     spoiler       |-> r.spoiler,
     advertisement |-> FALSE,
     flair_id      |-> r.flair_id,
     flair_text    |-> r.flair_text]

\* the arguments tried by CtorSpec
RdArgs ==
    [user          : {"u"},
     password      : {"p"},
     app_id        : {"id", "bad id"},
     app_secret    : {"sec"},
     targets       : SeqsUpTo(RawSubs, MaxSubs),
     kind          : {"None", " LINK ", "bogus"},
     nsfw          : BOOLEAN,
     sendreplies   : BOOLEAN,
     resubmit      : {FALSE},
     spoiler       : {FALSE},
     advertisement : BOOLEAN,
     flair_id      : {"None", "f1"},
     flair_text    : {"None"}]

\* the arguments of the instances Spec sends with: the subreddits #1 .. #n
RdSendArgs ==
    [user          : {"u"},
     password      : {"p"},
     app_id        : {"id"},
     app_secret    : {"sec"},
     targets       : { [k \in 1..n |-> RawSub(TRUE, k)] : n \in 0..MaxSubs },
     kind          : {"None"},
     nsfw          : {FALSE},
     sendreplies   : {TRUE},
     resubmit      : {FALSE},
     spoiler       : {FALSE},
     advertisement : {FALSE},
     flair_id      : {"None"},
     flair_text    : {"None"}]

\* the fields of an instance of another adapter
MgUnused ==
    /\ targets = <<>>
    /\ cc = {}
    /\ bcc = {}
    /\ batch = FALSE
    /\ attach = <<>>
    /\ files = <<>>
    /\ payload = EmptyPayload
    /\ index = 0

RdUnused ==
    /\ subreddits = <<>>
    /\ remaining = <<>>
    /\ access_token = "None"
    /\ access_token_expiry = "init"
    /\ refresh_token = "None"
    /\ ratelimit_remaining = 1
    /\ ratelimit_reset = 0
    /\ call = NoCall
    /\ fetched = NoFetch
    /\ login_failed = FALSE
    /\ clean = NoHistory

\* __init__: no token, the expiry and the rate-limit reset at the time of
\* construction, ratelimit_remaining 1.0, the subreddits #1 .. #n
RdInit ==
    /\ adapter = "reddit"
    /\ \E a \in RdSendArgs :
         /\ inst = RdConstruct(a)
         /\ subreddits = inst.subreddits
    /\ remaining = <<>>
    /\ access_token = "None"
    /\ access_token_expiry = "init"
    /\ refresh_token = "None"
    /\ ratelimit_remaining = 1
    /\ ratelimit_reset = 0
    /\ call = NoCall
    /\ fetched = NoFetch
    /\ login_failed = FALSE
    /\ clean = NoHistory

----------------------------------------------------------------------------
(* NotifySNS *)

\* the TopicArn values a CreateTopic reply can carry
Arns == {"arnA", "arnB"}

\* A reply to _post().  exc: requests.post() raised RequestException.
\* body: r.text as aws_response_to_dict() sees it: "unparseable" (ParseError),
\* "arn" (a TopicArn element with text arn), "blank_arn" (a TopicArn element
\* of white space), "no_arn" (well-formed, no TopicArn), "empty_kept" (a kept
\* leaf element without text, such as <TopicArn/>).
SnsReply(status, body, arn) == [exc |-> FALSE, status |-> status, body |-> body, arn |-> arn]

SnsExcReply == [exc |-> TRUE, status |-> 0, body |-> "unparseable", arn |-> "None"]

SnsReplies ==
    {SnsExcReply}
    \cup { SnsReply(st, b, "None") : st \in {200, 403},
              b \in {"unparseable", "blank_arn", "no_arn", "empty_kept"} }
    \cup { SnsReply(st, "arn", a) : st \in {200, 403}, a \in Arns }

\* aws_response_to_dict(): the topic_arn of the dictionary it returns ("None"
\* when the key is absent), or raised: (root.text).strip() on a kept element
\* whose text is None raises AttributeError, which the except clause
\* (ParseError, TypeError) does not catch.  aws_response_to_dict(None) is the
\* "unparseable" case (TypeError).
aws_response_to_dict(body, arn) ==
    IF body = "empty_kept" THEN [raised |-> TRUE, topic_arn |-> "None"]
    ELSE IF body = "arn" THEN [raised |-> FALSE, topic_arn |-> arn]
    ELSE IF body = "blank_arn" THEN [raised |-> FALSE, topic_arn |-> ""]
    ELSE [raised |-> FALSE, topic_arn |-> "None"]

\* _post(): (result, response) or an exception leaving it
SnsPost(resp) ==
    IF resp.exc
    THEN [ok |-> FALSE] @@ aws_response_to_dict("unparseable", "None")
    ELSE [ok |-> (resp.status = 200)] @@ aws_response_to_dict(resp.body, resp.arn)

\* the POST of _post(): self.throttle() comes first
SnsRequest(action, to) == [Action |-> action, to |-> to, throttled |-> TRUE]

\* `if not topic_arn`
NoArn(t) == t \in {"None", ""}

\* region names the region pattern accepts
SnsRegions == {"us-east-1"}

\* An entry of parse_list(targets) as is_phone_no() and IS_TOPIC classify it:
\* a phone number, a topic, or neither ("bad"); a path entry of a URL that is
\* no target is kind "text"
RawSns(kind, id) == [kind |-> kind, id |-> id, text |-> ""]

SnsSegment(text) == [kind |-> "text", id |-> 0, text |-> text]

RawSnsTargets ==
    {RawSns("bad", 0)}
    \cup { RawSns("phone", n) : n \in 1..MaxPhones }
    \cup { RawSns("topic", n) : n \in 1..MaxTopics }

\* the ids of the entries of one kind, in their order
SnsOfKind(raw, kind) ==
    LET v == SelectSeq(parse_list(raw), LAMBDA e : e.kind = kind)
    IN  [k \in DOMAIN v |-> v[k].id]

\* self.topics after the loop over parse_list(targets)
SnsTopics(raw) == SnsOfKind(raw, "topic")

\* self.phone after the loop over parse_list(targets)
SnsPhones(raw) == SnsOfKind(raw, "phone")

\* NotifySNS.__init__: TypeError for a bad key id, secret or region, else the
\* instance; targets that are neither phone nor topic are dropped
SnsConstruct(a) ==
    IF \/ a.access_key_id = ""
       \/ a.secret_access_key = ""
       \/ a.region_name \notin SnsRegions
    THEN TypeError
    ELSE [error                 |-> FALSE,
          aws_access_key_id     |-> a.access_key_id,
          aws_secret_access_key |-> a.secret_access_key,
          aws_region_name       |-> a.region_name,
          phone                 |-> SnsPhones(a.targets),
          topics                |-> SnsTopics(a.targets)]

\* NotifySNS.url_identifier
SnsUrlIdentifier(i) ==
    <<"sns", i.aws_access_key_id, i.aws_secret_access_key, i.aws_region_name>>

\* url(privacy=False) as its parts: the secret (quoted, one path entry), the
\* region, the phone numbers, the topics with "#"
SnsUrl(i) ==
    [schema |-> "sns",
     host   |-> i.aws_access_key_id,
     path   |-> <<SnsSegment(i.aws_secret_access_key), SnsSegment(i.aws_region_name)>>
                \o [k \in DOMAIN i.phone |-> RawSns("phone", i.phone[k])]
                \o [k \in DOMAIN i.topics |-> RawSns("topic", i.topics[k])],
     qsd    |-> [to |-> <<>>, secret |-> "", access |-> "", region |-> ""]]

\* IS_REGION.match(entry)
IsRegion(e) == e.kind = "text" /\ e.text \in SnsRegions

\* "/".join(secret_access_key_parts)
JoinSlash(parts) ==
    IF parts = <<>> THEN ""
    ELSE IF Len(parts) = 1 THEN parts[1].text
    ELSE "joined"

\* NotifySNS.parse_url: the host is the key id; the path entries before the
\* first region-like entry make the secret, the entries after it the targets
SnsParseUrl(u) ==
    LET at == { k \in DOMAIN u.path : IsRegion(u.path[k]) }
        i == IF at = {} THEN 0 ELSE CHOOSE k \in at : \A j \in at : k <= j
    IN  [access_key_id     |-> IF u.qsd.access # "" THEN u.qsd.access ELSE u.host,
         secret_access_key |-> IF u.qsd.secret # "" THEN u.qsd.secret
                               ELSE IF i = 0 THEN ""
                               ELSE JoinSlash(SubSeq(u.path, 1, i - 1)),
         region_name       |-> IF u.qsd.region # "" THEN u.qsd.region
                               ELSE IF i = 0 THEN "" ELSE u.path[i].text,
         targets           |-> SubSeq(u.path, i + 1, Len(u.path)) \o u.qsd.to]

\* the arguments tried by CtorSpec
SnsArgs ==
    [access_key_id     : {"AKID", ""},
     secret_access_key : {"sec", "a/b"},
     region_name       : {"us-east-1", "nowhere"},
     targets           : SeqsUpTo(RawSnsTargets, MaxTargets)]

\* the arguments of the instances Spec sends with: the phone numbers +1 .. +n
\* and the topics 1 .. m
SnsSendArgs ==
    [access_key_id     : {"AKID"},
     secret_access_key : {"sec"},
     region_name       : {"us-east-1"},
     targets           : { [k \in 1..n |-> RawSns("phone", k)]
                           \o [k \in 1..m |-> RawSns("topic", k)] :
                             n \in 0..MaxPhones, m \in 0..MaxTopics }]

\* send() up to its loops
SnsSendBegin ==
    /\ adapter = "sns"
    /\ pc \in {"idle", "done"}
    /\ requests' = <<>>
    /\ replies' = <<>>
    /\ attempted' = 0
    /\ failures' = 0
    /\ error_count' = 0
    /\ IF Len(phone) = 0 /\ Len(topics) = 0
       THEN /\ Return("false", "no_targets")
            /\ UNCHANGED <<phone_left, topics_left>>
       ELSE /\ pc' = "loop"
            /\ result' = "none"
            /\ exitPath' = "none"
            /\ phone_left' = phone
            /\ topics_left' = topics
    /\ UNCHANGED <<ctorVars, adapter, mgVars, rdVars, has_error, phone, topics>>

\* one iteration of `while len(phone) > 0`
SnsPhone ==
    /\ adapter = "sns"
    /\ pc = "loop"
    /\ phone_left # <<>>
    /\ phone_left' = Tail(phone_left)
    /\ phone' = PopLeavesSelf(phone, phone_left')
    /\ attempted' = attempted + 1
    /\ requests' = <<SnsRequest("Publish", [PhoneNumber |-> Head(phone_left)])>>
    /\ \E resp \in SnsReplies :
         LET p == SnsPost(resp)
         IN  /\ replies' = <<resp>>
             /\ IF p.raised
                THEN /\ Return("raised", "exception")
                     /\ UNCHANGED <<error_count, failures>>
                ELSE /\ error_count' = error_count + (IF p.ok THEN 0 ELSE 1)
                     /\ failures' = failures + (IF p.ok THEN 0 ELSE 1)
                     /\ UNCHANGED <<pc, result, exitPath>>
    /\ UNCHANGED <<ctorVars, adapter, mgVars, rdVars, has_error, topics, topics_left>>

\* one iteration of `while len(topics)`: CreateTopic, then Publish
SnsTopic ==
    /\ adapter = "sns"
    /\ pc = "loop"
    /\ phone_left = <<>>
    /\ topics_left # <<>>
    /\ topics_left' = Tail(topics_left)
    /\ topics' = PopLeavesSelf(topics, topics_left')
    /\ attempted' = attempted + 1
    /\ \E r1 \in SnsReplies :
         LET create == SnsRequest("CreateTopic", [Name |-> Head(topics_left)])
             p1 == SnsPost(r1)
         IN  IF p1.raised
             THEN /\ requests' = <<create>>
                  /\ replies' = <<r1>>
                  /\ Return("raised", "exception")
                  /\ UNCHANGED <<error_count, failures>>
             ELSE IF ~p1.ok \/ NoArn(p1.topic_arn)
             THEN /\ requests' = <<create>>
                  /\ replies' = <<r1>>
                  /\ error_count' = error_count + 1
                  /\ failures' = failures + 1
                  /\ UNCHANGED <<pc, result, exitPath>>
             ELSE \E r2 \in SnsReplies :
                    LET p2 == SnsPost(r2)
                    IN  /\ requests' = <<create,
                                         SnsRequest("Publish", [TopicArn |-> p1.topic_arn])>>
                        /\ replies' = <<r1, r2>>
                        /\ IF p2.raised
                           THEN /\ Return("raised", "exception")
                                /\ UNCHANGED <<error_count, failures>>
                           ELSE /\ error_count' = error_count + (IF p2.ok THEN 0 ELSE 1)
                                /\ failures' = failures + (IF p2.ok THEN 0 ELSE 1)
                                /\ UNCHANGED <<pc, result, exitPath>>
    /\ UNCHANGED <<ctorVars, adapter, mgVars, rdVars, has_error, phone, phone_left>>

\* return error_count == 0
SnsSendEnd ==
    /\ adapter = "sns"
    /\ pc = "loop"
    /\ phone_left = <<>>
    /\ topics_left = <<>>
    /\ Return(IF error_count = 0 THEN "true" ELSE "false", "end")
    /\ UNCHANGED <<ctorVars, adapter, mgVars, rdVars, snsVars, has_error, requests,
                   replies, attempted, failures>>

SnsUnused ==
    /\ phone = <<>>
    /\ topics = <<>>
    /\ phone_left = <<>>
    /\ topics_left = <<>>
    /\ error_count = 0

\* __init__: the validated phone numbers +1 .. +n and topics 1 .. m
SnsInit ==
    /\ adapter = "sns"
    /\ \E a \in SnsSendArgs :
         /\ inst = SnsConstruct(a)
         /\ phone = inst.phone
         /\ topics = inst.topics
    /\ phone_left = <<>>
    /\ topics_left = <<>>
    /\ error_count = 0

----------------------------------------------------------------------------
(* The specification *)

Init ==
    /\ cpc = "built"
    /\ args = NoArgs
    /\ rebuilt = NoInstance
    /\ signed = <<>>
    /\ pc = "idle"
    /\ result = "none"
    /\ exitPath = "none"
    /\ requests = <<>>
    /\ replies = <<>>
    /\ attempted = 0
    /\ failures = 0
    /\ has_error = FALSE
    /\ \/ MgInit /\ RdUnused /\ SnsUnused
       \/ RdInit /\ MgUnused /\ SnsUnused
       \/ SnsInit /\ MgUnused /\ RdUnused

Next ==
    \/ MgSendBegin
    \/ MgBatch
    \/ MgSendEnd
    \/ RdSendBegin
    \/ RdLoginReply
    \/ RdSubmitPost
    \/ RdSubmitReply
    \/ RdReloginReply
    \/ RdRetryReply
    \/ RdSendEnd
    \/ SnsSendBegin
    \/ SnsPhone
    \/ SnsTopic
    \/ SnsSendEnd

Spec == Init /\ [][Next]_vars

----------------------------------------------------------------------------
(* Request signing of NotifySNS *)

\* a clock reading: the day (%Y%m%d) and the second within it (%H%M%S)
SnsTimes == [date : 0..MaxTime, hms : 0..MaxTime]

\* sha256(...).hexdigest() and hmac.new(key, msg, sha256): taken as free of
\* collisions, a digest is the pair of what went in
sha256(data) == <<"sha256", data>>

hmac(key, msg) == <<"hmac", key, msg>>

\* a signature that stops at the derived key and never signs to_sign
aws_auth_signature_KeyOnly(i, to_sign, reference) ==
    hmac(hmac(hmac(hmac(<<"AWS4", i.aws_secret_access_key>>, reference.date),
                   i.aws_region_name), "sns"), "aws4_request")

\* aws_auth_signature(): the key chain date -> region -> service -> request,
\* then the signature of to_sign
aws_auth_signature(i, to_sign, reference) ==
    LET _date == hmac(<<"AWS4", i.aws_secret_access_key>>, reference.date)
        _region == hmac(_date, i.aws_region_name)
        _service == hmac(_region, "sns")
        _signed == hmac(_service, "aws4_request")
    IN  hmac(_signed, to_sign)

\* aws_prepare_request(payload, reference): the headers.  The reference
\* argument is overwritten by datetime.now(timezone.utc) in the first
\* statement that uses it, so the time signed is the clock's (now).
aws_prepare_request(i, pl, reference_arg, now) ==
    LET reference == now
        amzdate == <<reference.date, reference.hms>>
        scope == <<reference.date, i.aws_region_name, "sns", "aws4_request">>
        signed_headers == <<<<"content-type", "application/x-www-form-urlencoded; charset=utf-8">>,
                            <<"host", <<"sns", i.aws_region_name, "amazonaws.com">> >>,
                            <<"x-amz-date", amzdate>> >>
        canonical_request == <<"POST", "/", "", signed_headers,
                               "content-type;host;x-amz-date", sha256(pl)>>
        to_sign == <<"AWS4-HMAC-SHA256", amzdate, scope, sha256(canonical_request)>>
    IN  [XAmzDate      |-> amzdate,
         Authorization |-> [Credential    |-> <<i.aws_access_key_id, scope>>,
                            SignedHeaders |-> "content-type;host;x-amz-date",
                            Signature     |-> aws_auth_signature(i, to_sign, reference)]]

----------------------------------------------------------------------------
(* Construction: __init__, url() and parse_url() of the three adapters *)

\* __init__ of the adapter on the arguments a
Construct(a) ==
    CASE adapter = "mailgun" -> MgConstruct(a)
      [] adapter = "reddit"  -> RdConstruct(a)
      [] adapter = "sns"     -> SnsConstruct(a)

\* the plugin is instantiated with the results of parse_url(url)
Instantiate(i) ==
    CASE adapter = "mailgun" -> MgConstruct(MgParseUrl(MgUrl(i)))
      [] adapter = "reddit"  -> RdConstruct(RdKwargs(RdParseUrl(RdUrl(i))))
      [] adapter = "sns"     -> SnsConstruct(SnsParseUrl(SnsUrl(i)))

\* __init__ runs on the arguments: an instance, or TypeError
Build ==
    /\ cpc = "new"
    /\ inst' = Construct(args)
    /\ cpc' = IF inst'.error THEN "error" ELSE "built"
    /\ UNCHANGED <<adapter, args, rebuilt, signed, sendVars>>

\* url() of the instance is parsed and a second instance is made from it
RoundTrip ==
    /\ cpc = "built"
    /\ rebuilt' = Instantiate(inst)
    /\ cpc' = "rebuilt"
    /\ UNCHANGED <<adapter, args, inst, signed, sendVars>>

\* one call of aws_prepare_request(); a history of two calls is kept
SnsSign ==
    /\ adapter = "sns"
    /\ cpc = "built"
    /\ Len(signed) < 2
    /\ \E pl \in {"Action=Publish", "Action=CreateTopic"},
          reference \in SnsTimes, now \in SnsTimes :
         signed' = Append(signed, [payload |-> pl, now |-> now,
                                   headers |-> aws_prepare_request(inst, pl,
                                                                   reference, now)])
    /\ UNCHANGED <<adapter, cpc, args, inst, rebuilt, sendVars>>

\* before __init__: the raw arguments, nothing sent
CtorInit ==
    /\ cpc = "new"
    /\ \/ adapter = "mailgun" /\ args \in MgArgs
       \/ adapter = "reddit" /\ args \in RdArgs
       \/ adapter = "sns" /\ args \in SnsArgs
    /\ inst = NoInstance
    /\ rebuilt = NoInstance
    /\ signed = <<>>
    /\ pc = "idle"
    /\ result = "none"
    /\ exitPath = "none"
    /\ requests = <<>>
    /\ replies = <<>>
    /\ attempted = 0
    /\ failures = 0
    /\ has_error = FALSE
    /\ MgUnused
    /\ RdUnused
    /\ SnsUnused

CtorNext ==
    \/ Build
    \/ RoundTrip
    \/ SnsSign

CtorSpec == CtorInit /\ [][CtorNext]_vars

----------------------------------------------------------------------------
(* Properties *)

\* batches (Mailgun) or targets (Reddit, SNS) the loop of send() has to run
Total ==
    CASE adapter = "mailgun" -> CeilDiv(Len(targets), IF batch THEN default_batch_size ELSE 1)
      [] adapter = "reddit"  -> Len(subreddits)
      [] adapter = "sns"     -> Len(phone) + Len(topics)

AllClosed(fs) == \A i \in DOMAIN fs : fs[i] = "closed"

\* position of the first attachment that is not readable, 0 when all are
RECURSIVE FirstNotOk(_, _)
FirstNotOk(att, k) ==
    IF k > Len(att) THEN 0
    ELSE IF att[k] # "ok" THEN k
    ELSE FirstNotOk(att, k + 1)

\* C1: in every POST of Mailgun send(), no address of the request's `to`
\* field is in the request's `cc` or `bcc` field.
C1_ToDisjointFromCcBcc ==
    adapter = "mailgun" =>
        \A i \in DOMAIN requests :
            Range(requests[i].to) \cap (requests[i].cc \cup requests[i].bcc) = {}

\* C2: every attachment handle Mailgun send() opened is closed when send()
\* has returned, whatever the return path.
C2_HandlesClosedOnReturn ==
    (adapter = "mailgun" /\ pc = "done") => AllClosed(files)

NumLogins == Cardinality({ i \in DOMAIN requests : requests[i].payload.kind = "login" })

\* a submission made with a token whose first reply is 401
FirstReply401 ==
    /\ adapter = "reddit"
    /\ requests # <<>>
    /\ requests[1].payload.kind = "submit"
    /\ requests[1].bearer \in Tokens
    /\ replies # <<>>
    /\ ~replies[1].exc
    /\ replies[1].status = 401

\* C3: a Reddit submission made with a token whose first reply is 401 and
\* whose re-login succeeds issues exactly one login request and exactly one
\* retry, of the same payload; when the retry is answered 401 as well the
\* call is over and failed, with no further login and no further retry.
C3_OneReloginOneRetry ==
    (FirstReply401 /\ Len(replies) >= 2 /\ LoginSucceeds(replies[2])) =>
        /\ Len(requests) = 3
        /\ NumLogins = 1
        /\ requests[2].payload.kind = "login"
        /\ requests[3].payload = requests[1].payload
        /\ requests[3].url = requests[1].url
        /\ (Len(replies) = 3 /\ ~replies[3].exc /\ replies[3].status = 401) =>
               /\ pc \in {"loop", "done"}
               /\ fetched.ok = FALSE
               /\ has_error
               /\ failures >= 1
               /\ result # "true"

\* C3 witness: the retry after a successful re-login was answered 401
C3_Witness ==
    /\ FirstReply401
    /\ Len(replies) = 3
    /\ LoginSucceeds(replies[2])
    /\ ~replies[3].exc
    /\ replies[3].status = 401
    /\ pc = "loop"

\* C4: no exception escapes send() of any adapter: it returns True or False.
C4_NoExceptionEscapes == result # "raised"

\* C5: once the loop of send() has started, a failure in one batch or target
\* does not keep the remaining ones from being attempted: a send() that is
\* over has attempted them all.
C5_FailureDoesNotStopLoop ==
    (pc = "done" /\ attempted >= 1) => attempted = Total

\* C6: send() returns False whenever a call or batch of it failed, and True
\* when there are targets and every call was made and succeeded.
C6_ResultIsConjunction ==
    pc = "done" =>
        /\ failures >= 1 => result = "false"
        /\ (Total >= 1 /\ attempted = Total /\ failures = 0 /\ result # "raised")
               => result = "true"

\* the i-th consecutive chunk of size bs of the To list
ChunkOf(i, bs) == SubSeq(targets, (i - 1) * bs + 1, Min(i * bs, Len(targets)))

\* C7: without an attachment error, Mailgun send() issues ceil(N/batch_size)
\* POSTs (batch_size 2000 in batch mode, 1 otherwise) whose `to` lists are
\* the consecutive chunks of the To list in its order.
C7_ChunksInOrder ==
    (adapter = "mailgun" /\ pc = "done" /\ exitPath \in {"end", "no_targets"}) =>
        LET bs == IF batch THEN default_batch_size ELSE 1
        IN  /\ Len(requests) = CeilDiv(Len(targets), bs)
            /\ \A i \in DOMAIN requests : requests[i].to = ChunkOf(i, bs)
            /\ \A j \in DOMAIN targets :
                   Cardinality({ i \in DOMAIN requests :
                                   (i - 1) * bs < j /\ j <= (i - 1) * bs + Len(requests[i].to) }) = 1

\* C7 witness: a batch-mode send of more than one batch that ran to its end
C7_Witness ==
    /\ adapter = "mailgun"
    /\ pc = "done"
    /\ exitPath = "end"
    /\ batch
    /\ Len(requests) = 2
    /\ attach # <<>>

\* the submit endpoint answered the last POST of a finished call with
\* status 200 and a body that is no JSON
Unparseable200 ==
    /\ adapter = "reddit"
    /\ pc = "loop"
    /\ replies # <<>>
    /\ Len(replies) = Len(requests)
    /\ requests[Len(requests)].url = "submit_url"
    /\ requests[Len(requests)].payload.kind = "submit"
    /\ LET r == replies[Len(replies)]
       IN  ~r.exc /\ r.status = 200 /\ r.body = "unparseable"

\* C8 as stated: a 200 reply of the submit endpoint with an unparseable body
\* makes the call a success with the empty result {} and is not counted as
\* a failure by send().
C8_UnparseableIsSuccess ==
    Unparseable200 =>
        /\ fetched = [ok |-> TRUE, content |-> "empty"]
        /\ failures = 0 => ~has_error

\* C8 amended: a 200 reply of the submit endpoint with an unparseable body
\* makes _fetch() return (False, {}): the call is a failure with the empty
\* result, send() counts it (has_error) and no exception is raised.
C8_UnparseableIsFailure ==
    Unparseable200 =>
        /\ fetched = [ok |-> FALSE, content |-> "empty"]
        /\ has_error
        /\ failures >= 1
        /\ result = "none"

\* C8 witness: the first reply of a submission was 200 and unparseable
C8_Witness == Unparseable200 /\ Len(replies) = 1

\* C9: To > CC > BCC in every Mailgun request: an address configured in both
\* cc and bcc (and not in the request's `to`) is in its `cc` field and not in
\* its `bcc` field, and an address of its `to` field is in neither.
C9_Precedence ==
    adapter = "mailgun" =>
        \A i \in DOMAIN requests :
            /\ \A a \in (cc \cap bcc) \ Range(requests[i].to) :
                   a \in requests[i].cc /\ a \notin requests[i].bcc
            /\ Range(requests[i].to) \cap (requests[i].cc \cup requests[i].bcc) = {}

\* C10: when open() of the k-th attachment raises an I/O error in Mailgun
\* send(), the k-1 handles opened before are all closed and send() returns
\* False without raising.
C10_OpenFailureClosesAll ==
    LET k == FirstNotOk(attach, 1)
    IN  (adapter = "mailgun" /\ pc # "idle" /\ targets # <<>>
         /\ k >= 1 /\ attach[k] = "openfail") =>
            /\ pc = "done"
            /\ result = "false"
            /\ Len(files) = k - 1
            /\ AllClosed(files)
            /\ requests = <<>>

\* C10 witness: the second attachment failed to open after the first was opened
C10_Witness ==
    /\ adapter = "mailgun"
    /\ pc = "done"
    /\ attach = <<"ok", "openfail">>
    /\ Len(files) = 1

\* the configuration of the instance: what __init__ set, less the session
\* and rate-limit fields of Reddit
Configuration == <<inst, targets, cc, bcc, batch, subreddits, phone, topics>>

\* C16: a Reddit instance starts without a token; when a login attempt of a
\* send() failed, the session holds no usable token once that send() is over,
\* and the next send() begins with a login request.
C16_FailedLoginClearsSession ==
    [][adapter = "reddit" =>
         /\ pc = "idle" => ~Truthy(access_token)
         /\ (pc = "done" /\ login_failed) =>
                /\ ~Truthy(access_token)
                /\ sendVars' # sendVars =>
                       /\ pc' = "login"
                       /\ Len(requests') = 1
                       /\ requests'[1].payload.kind = "login"]_vars

\* C17: no step of send() changes the configuration of the instance (target
\* lists, options, credentials), whatever the replies.
C17_SendKeepsConfiguration == [][UNCHANGED Configuration]_vars

\* C17 witness: a Reddit send() succeeded and left a token in the session
C17_Witness ==
    /\ adapter = "reddit"
    /\ pc = "done"
    /\ result = "true"
    /\ access_token \in Tokens
    /\ attempted = MaxSubs

\* C18: the POST that retries a Reddit submission after a successful
\* re-login carries the token that re-login obtained (the current token).
C18_RetryCarriesNewToken ==
    (adapter = "reddit" /\ Len(requests) = 3 /\ requests[3].payload.kind = "submit") =>
        requests[3].bearer = access_token

\* C19: a 500 reply to a Reddit submission makes that call fail with no
\* login and no retry; a login is made from inside a submission only after
\* a 401 or 403 reply.
C19_Only401StartsRelogin ==
    (adapter = "reddit" /\ requests # <<>> /\ requests[1].payload.kind = "submit"
     /\ replies # <<>> /\ ~replies[1].exc) =>
        /\ replies[1].status = 500 =>
               /\ Len(requests) = 1
               /\ pc = "loop"
               /\ ~fetched.ok
               /\ has_error
        /\ NumLogins >= 1 => replies[1].status \in {401, 403}

\* the re-login made from inside a submission was answered, and failed
ReloginFailed ==
    /\ adapter = "reddit"
    /\ Len(requests) >= 2
    /\ requests[1].payload.kind = "submit"
    /\ requests[2].payload.kind = "login"
    /\ Len(replies) >= 2
    /\ ~LoginSucceeds(replies[2])

\* C20: a Reddit _fetch() call makes at most three POSTs (the original, one
\* login, one retry); the reply to a login POST never starts another login;
\* a failed re-login ends the call, unsuccessful, with no further POST.
C20_AtMostThreeRequests ==
    adapter = "reddit" =>
        /\ Len(requests) <= 3
        /\ NumLogins <= 1
        /\ \A i \in DOMAIN requests :
               requests[i].payload.kind = "login" =>
                   (i < Len(requests) => requests[i + 1].payload.kind = "submit")
        /\ ReloginFailed =>
               /\ Len(requests) = 2
               /\ pc \in {"loop", "done"}
               /\ result # "true"
               /\ pc = "loop" => (fetched = [ok |-> FALSE, content |-> "empty"] /\ has_error)

\* C20 witness: a re-login answered 401 ended the call
C20_Witness ==
    /\ ReloginFailed
    /\ replies[2].status = 401
    /\ pc = "loop"

\* the instance __init__ makes of the arguments with other targets
WithTargets(t) == Construct([args EXCEPT !.targets = t])

\* url_identifier of an instance of the adapter
UrlIdentifier(i) ==
    CASE adapter = "mailgun" -> MgUrlIdentifier(i)
      [] adapter = "reddit"  -> RdUrlIdentifier(i)
      [] adapter = "sns"     -> SnsUrlIdentifier(i)

\* other target lists to construct the same configuration with
OtherTargets ==
    CASE adapter = "mailgun" -> SeqsUpTo(RawEmails, 1)
      [] adapter = "reddit"  -> SeqsUpTo(RawSubs, 1)
      [] adapter = "sns"     -> SeqsUpTo(RawSnsTargets, 1)

\* C11: url_identifier does not depend on the targets: an instance built
\* from the same arguments with another target list (for Mailgun also
\* another cc and bcc) has the same url_identifier.
C11_IdentifierIgnoresTargets ==
    cpc = "built" =>
        /\ \A t \in OtherTargets :
               /\ ~WithTargets(t).error
               /\ UrlIdentifier(WithTargets(t)) = UrlIdentifier(inst)
        /\ adapter = "mailgun" =>
               \A c \in {<<>>, <<RawEmail(TRUE, "Ann", NumAddr)>>} :
                   /\ UrlIdentifier(MgConstruct([args EXCEPT !.cc = c])) = UrlIdentifier(inst)
                   /\ UrlIdentifier(MgConstruct([args EXCEPT !.bcc = c])) = UrlIdentifier(inst)

\* C11 witness: a Mailgun instance with two recipients, a cc and a bcc
C11_Witness ==
    /\ cpc = "built"
    /\ adapter = "mailgun"
    /\ Len(inst.targets) = 2
    /\ inst.cc # {}
    /\ inst.bcc # {}

\* the credentials, region and options of an instance (not its targets)
Options(i) ==
    CASE adapter = "mailgun" ->
             <<i.apikey, i.user, i.host, i.region_name, i.from_addr.addr,
               i.from_addr.name, i.batch, i.headers, i.tokens>>
      [] adapter = "reddit" ->
             <<i.user, i.password, i.client_id, i.client_secret, i.kind, i.nsfw,
               i.sendreplies, i.resubmit, i.spoiler, i.advertisement, i.flair_id,
               i.flair_text>>
      [] adapter = "sns" ->
             <<i.aws_access_key_id, i.aws_secret_access_key, i.aws_region_name>>

\* url() of an instance of the adapter
UrlOf(i) ==
    CASE adapter = "mailgun" -> MgUrl(i)
      [] adapter = "reddit"  -> RdUrl(i)
      [] adapter = "sns"     -> SnsUrl(i)

\* C12: the instance made from parse_url(url()) of a constructed instance
\* has the same credentials, region and options, and the same url().
C12_RoundTrip ==
    cpc = "rebuilt" =>
        /\ ~rebuilt.error
        /\ Options(rebuilt) = Options(inst)
        /\ UrlOf(rebuilt) = UrlOf(inst)

\* C13: a Mailgun instance constructed with no targets has exactly one
\* target: the sender's address (user@host, or the address given as from),
\* with no display name.
C13_DefaultTargetIsSender ==
    (adapter = "mailgun" /\ cpc = "built" /\ args.targets = <<>>) =>
        /\ Len(inst.targets) = 1
        /\ inst.targets[1].name = "False"
        /\ inst.targets[1].addr = (IF args.from_addr.kind = "email"
                                   THEN args.from_addr.addr ELSE SelfAddr)

\* C13 witness: no targets and a from that is an address with a name
C13_Witness ==
    /\ adapter = "mailgun"
    /\ cpc = "built"
    /\ args.targets = <<>>
    /\ args.from_addr = [kind |-> "email", name |-> "Bob", addr |-> 1]

\* the entries of raw that are well-formed (of kind, for SNS), as what the
\* instance keeps of them, in their order
RECURSIVE KeptInOrder(_, _)
KeptInOrder(raw, kind) ==
    IF raw = <<>> THEN <<>>
    ELSE LET e == Head(raw)
             rest == KeptInOrder(Tail(raw), kind)
         IN  IF kind = "email"
             THEN (IF e.ok THEN <<[name |-> e.name, addr |-> e.addr]>> \o rest ELSE rest)
             ELSE (IF e.kind = kind THEN <<e.id>> \o rest ELSE rest)

\* how many entries of raw are malformed
Malformed(raw) ==
    Cardinality({ k \in DOMAIN raw :
                    IF adapter = "mailgun" THEN ~raw[k].ok ELSE raw[k].kind = "bad" })

\* a target list with well-formed and malformed entries
Mixed(raw) == 0 < Malformed(raw) /\ Malformed(raw) < Len(raw)

OneSecondLater(t1, t2) ==
    \/ t2.date = t1.date /\ t2.hms = t1.hms + 1
    \/ t2.date = t1.date + 1 /\ t1.hms = MaxTime /\ t2.hms = 0

----------------------------------------------------------------------------
(* Throttling and rate limits *)

\* C21: every POST of a send() comes after a throttle() call of its own:
\* the POSTs of Mailgun and SNS, and of Reddit the login request, the
\* submission and the retried submission.
C21_EveryPostThrottled ==
    \A k \in DOMAIN requests : requests[k].throttled

\* C22: before each Reddit request a wait is handed to throttle() exactly
\* when ratelimit_remaining <= 0 and the clock is before ratelimit_reset,
\* and the wait then lasts at least until the reset.
C22_WaitIffQuotaUsedUp ==
    (adapter = "reddit" /\ pc \in {"login", "submit", "relogin", "retry"}) =>
        LET rq == requests[Len(requests)]
            due == ratelimit_remaining <= 0 /\ rq.now[1] < ratelimit_reset
        IN  /\ (rq.wait # <<>>) <=> due
            /\ due => rq.wait[1] >= ratelimit_reset - rq.now[1]

\* a step in which a Reddit reply arrives that makes its _fetch() succeed:
\* status 200, a body that parses, no errors in it
SuccessfulReply ==
    /\ adapter = "reddit"
    /\ Len(replies') = Len(replies) + 1
    /\ LET r == replies'[Len(replies')]
       IN  ~r.exc /\ r.status = 200 /\ r.body \in {"empty", "object"}

\* C23: after a successful Reddit call ratelimit_remaining and
\* ratelimit_reset are the values of the X-RateLimit-Remaining and
\* X-RateLimit-Reset headers when both are present and valid, and both are
\* what they were when one of them is absent or malformed.
C23_RateLimitPairUpdatedTogether ==
    [][SuccessfulReply =>
          LET hdr == replies'[Len(replies')].hdr
          IN  IF hdr.rem # <<>> /\ hdr.reset # <<>>
              THEN /\ ratelimit_remaining' = hdr.rem[1]
                   /\ ratelimit_reset' = hdr.reset[1]
              ELSE UNCHANGED <<ratelimit_remaining, ratelimit_reset>>]_vars

----------------------------------------------------------------------------
(* Empty target sets *)

\* C24: a constructed Mailgun instance never has an empty target list: when
\* no well-formed recipient is left (none given, or every one malformed) its
\* single target is the sender's own address.
C24_NeverWithoutTarget ==
    (adapter = "mailgun" /\ cpc = "built") =>
        /\ inst.targets # <<>>
        /\ (\A k \in DOMAIN args.targets : ~args.targets[k].ok) =>
               inst.targets = <<[name |-> "False", addr |-> inst.from_addr.addr]>>

----------------------------------------------------------------------------
(* Reddit: endpoints, logins and the token *)

\* C25: a Reddit request with a submission payload goes to the submit
\* endpoint with a bearer token, and a request to the auth endpoint carries
\* a login payload and the client id and secret.
C25_PayloadMatchesEndpoint ==
    adapter = "reddit" =>
        \A k \in DOMAIN requests :
            LET rq == requests[k]
            IN  /\ rq.payload.kind = "submit" =>
                       rq.url = "submit_url" /\ Truthy(rq.bearer) /\ ~rq.basic
                /\ rq.url = "auth_url" =>
                       rq.payload.kind = "login" /\ rq.basic

----------------------------------------------------------------------------
(* SNS topics *)

\* a step that runs one iteration of the topic loop of SNS send()
TopicStep ==
    /\ adapter = "sns"
    /\ pc = "loop"
    /\ topics_left # <<>>
    /\ topics_left' = Tail(topics_left)

\* the reply to CreateTopic is status 200 and its body carries a TopicArn
Created(r) == ~r.exc /\ r.status = 200 /\ r.body = "arn"

\* C26: for each SNS topic CreateTopic is issued first; a Publish follows,
\* with the TopicArn of the reply, exactly when the reply is status 200 and
\* carries a TopicArn; otherwise no Publish is sent, the topic counts as one
\* failure and the loop goes on with the next topic.
C26_PublishOnlyAfterCreateTopic ==
    [][TopicStep =>
          LET r1 == replies'[1]
          IN  /\ requests'[1] = SnsRequest("CreateTopic", [Name |-> Head(topics_left)])
              /\ Created(r1) =>
                     /\ Len(requests') = 2
                     /\ requests'[2] = SnsRequest("Publish", [TopicArn |-> r1.arn])
              /\ ~Created(r1) =>
                     /\ Len(requests') = 1
                     /\ error_count' = error_count + 1
                     /\ pc' = "loop"]_vars

\* a step of Reddit in which login() posts its request: at the head of
\* send(), or from inside a running _fetch()
LoginIssued ==
    IF pc \in {"idle", "done"}
    THEN pc' = "login"
    ELSE /\ Len(requests') = Len(requests) + 1
         /\ requests'[Len(requests')].payload.kind = "login"

\* a step in which a reply with a status other than 200 arrives
Non200Reply ==
    /\ Len(replies') = Len(replies) + 1
    /\ ~replies'[Len(replies')].exc
    /\ replies'[Len(replies')].status # 200

\* C27: the stored token expiry has no say in what Reddit does: at the head
\* of send() an instance with any other expiry takes the step this one takes
\* (login exactly for a falsy token), and a login is made only there or when
\* a submission is answered with a status other than 200.
C27_ExpiryNeverRead ==
    [][adapter = "reddit" =>
          /\ pc \in {"idle", "done"} =>
                 \A e \in Expiries : LoginIssued <=> NeedsLogin(access_token, e)
          /\ LoginIssued =>
                 \/ pc \in {"idle", "done"} /\ ~Truthy(access_token)
                 \/ pc = "submit" /\ Non200Reply]_vars

\* C27 witness: a send() that went straight to its loop, with a token whose
\* expiry a login reply has set
C27_Witness ==
    /\ adapter = "reddit"
    /\ pc = "loop"
    /\ requests = <<>>
    /\ Truthy(access_token)
    /\ access_token_expiry = "expires_in"

\* C28: as long as every reply is status 200 with a valid body and no
\* errors (a login reply with an access token), the send() calls of a Reddit
\* instance issue one login request in all, made by the first of them, and
\* every submission carries the token of that login.
C28_OneLoginWhileAllSucceeds ==
    (adapter = "reddit" /\ clean.ok) =>
        /\ clean.logins = (IF clean.sends = 0 THEN 0 ELSE 1)
        /\ pc # "login" => access_token = clean.token
        /\ \A k \in DOMAIN requests :
               requests[k].payload.kind = "submit" =>
                   /\ Truthy(requests[k].bearer)
                   /\ requests[k].bearer = clean.token

\* C28 witness: a submission of a later send(), every reply so far a success
C28_Witness ==
    /\ adapter = "reddit"
    /\ clean.ok
    /\ clean.sends = 2
    /\ pc = "submit"

\* the validated target set of the instance is empty
NoTargets ==
    CASE adapter = "mailgun" -> targets = <<>>
      [] adapter = "reddit"  -> subreddits = <<>>
      [] adapter = "sns"     -> phone = <<>> /\ topics = <<>>

\* C29: send() on an instance without any validated target issues no HTTP
\* request and returns False.
C29_NoTargetsNoRequest ==
    NoTargets =>
        /\ requests = <<>>
        /\ pc \in {"idle", "done"}
        /\ pc = "done" => result = "false"

----------------------------------------------------------------------------
(* Mailgun: cc and bcc *)

\* C30: in every POST of Mailgun send() no address is in both the cc and
\* the bcc field.
C30_CcDisjointFromBcc ==
    adapter = "mailgun" =>
        \A k \in DOMAIN requests : requests[k].cc \cap requests[k].bcc = {}

\* C30 witness: an address configured as cc and as bcc, and a second POST
\* that carries both fields
C30_Witness ==
    /\ adapter = "mailgun"
    /\ cc \cap bcc # {}
    /\ Len(requests) = 2
    /\ requests[2].cc # {}
    /\ requests[2].bcc # {}

============================================================================
